---- MODULE Spec2Model ----
(***************************************************************************)
(* Model of qutebrowser/misc/mhtml.py: the MHTMLWriter class, its transfer *)
(* encoders, and the start_download coordinator with its finished / error  *)
(* callbacks.                                                              *)
(*                                                                         *)
(* Representation.  A Python str is the sequence of its code points and a  *)
(* Python bytes object is the sequence of its byte values (both sequences  *)
(* of integers).  None is the one-element sequence <<-1>>, which is        *)
(* neither a str nor a bytes value.  The sink fp is the sequence of the    *)
(* arguments of the fp.write calls made on it; one argument ("chunk") is   *)
(* the record [lit, dat] standing for the bytes of the literal lit         *)
(* followed by the bytes dat.                                              *)
(***************************************************************************)
EXTENDS Integers, Sequences, FiniteSets, TLC

None == <<-1>>

Lit(s) == [lit |-> s, dat |-> <<>>]
Dat(b) == [lit |-> "", dat |-> b]

Min(a, b) == IF a < b THEN a ELSE b

\* linesep.join(result) / b"".join(outline)
RECURSIVE Join(_, _)
Join(parts, sep) ==
    IF Len(parts) = 0 THEN <<>>
    ELSE IF Len(parts) = 1 THEN parts[1]
    ELSE parts[1] \o sep \o Join(Tail(parts), sep)

\* str.encode("utf-8"), for code points below 0x800
RECURSIVE Utf8Encode(_)
Utf8Encode(s) ==
    IF Len(s) = 0 THEN <<>>
    ELSE (IF s[1] < 128 THEN <<s[1]>>
          ELSE <<192 + (s[1] \div 64), 128 + (s[1] % 64)>>)
         \o Utf8Encode(Tail(s))

\* bytes.decode("ascii", "ignore"): bytes that are not ASCII are dropped
AsciiIgnoreDecode(b) == SelectSeq(b, LAMBDA c : c < 128)

\* str.startswith(prefix)
StartsWith(s, prefix) ==
    /\ Len(s) >= Len(prefix)
    /\ SubSeq(s, 1, Len(prefix)) = prefix

CRLF == <<13, 10>>

(***************************************************************************)
(* base64.b64encode and _chunked_base64                                    *)
(***************************************************************************)
\* the standard base64 alphabet A-Z a-z 0-9 + /
B64Char(i) ==
    IF i < 26 THEN 65 + i
    ELSE IF i < 52 THEN 97 + (i - 26)
    ELSE IF i < 62 THEN 48 + (i - 52)
    ELSE IF i = 62 THEN 43 ELSE 47

RECURSIVE b64encode(_)
b64encode(data) ==
    IF Len(data) = 0 THEN <<>>
    ELSE IF Len(data) = 1 THEN
        LET n == data[1] * 65536
        IN  <<B64Char(n \div 262144), B64Char((n \div 4096) % 64), 61, 61>>
    ELSE IF Len(data) = 2 THEN
        LET n == data[1] * 65536 + data[2] * 256
        IN  <<B64Char(n \div 262144), B64Char((n \div 4096) % 64),
              B64Char((n \div 64) % 64), 61>>
    ELSE
        LET n == data[1] * 65536 + data[2] * 256 + data[3]
        IN  <<B64Char(n \div 262144), B64Char((n \div 4096) % 64),
              B64Char((n \div 64) % 64), B64Char(n % 64)>>
            \o b64encode(SubSeq(data, 4, Len(data)))

\* default of the maxlen parameter of _chunked_base64
B64_MAXLEN == 76

\* mutant: the separator follows every line, the last one included
_chunked_base64_terminated(data) ==
    LET encoded == b64encode(data)
        maxlen  == B64_MAXLEN
        result  == [k \in 1..((Len(encoded) + maxlen - 1) \div maxlen) |->
                      SubSeq(encoded, (k - 1) * maxlen + 1,
                             Min(k * maxlen, Len(encoded))) \o CRLF]
    IN  Join(result, <<>>)

_chunked_base64(data) ==
    LET encoded == b64encode(data)
        maxlen  == B64_MAXLEN
        result  == [k \in 1..((Len(encoded) + maxlen - 1) \div maxlen) |->
                      SubSeq(encoded, (k - 1) * maxlen + 1,
                             Min(k * maxlen, Len(encoded)))]
    IN  Join(result, CRLF)

(***************************************************************************)
(* quopri.encodestring (the pure-Python path, b2a_qp being None) and       *)
(* _rn_quopri                                                              *)
(***************************************************************************)
ESCAPE == 61
MAXLINESIZE == 76

HEX(i) == IF i < 10 THEN 48 + i ELSE 65 + (i - 10)

\* quopri.needsquoting with quotetabs = False, header = False
needsquoting(c) ==
    IF c \in {32, 9} THEN FALSE
    ELSE IF c = 95 THEN FALSE
    ELSE c = ESCAPE \/ ~(32 <= c /\ c <= 126)

quote(c) == <<ESCAPE, HEX(c \div 16), HEX(c % 16)>>

\* the inner write(s, lineEnd) of quopri.encode
qp_write(s, lineEnd) ==
    IF Len(s) > 0 /\ s[Len(s)] \in {32, 9}
    THEN SubSeq(s, 1, Len(s) - 1) \o quote(s[Len(s)]) \o lineEnd
    ELSE IF s = <<46>> THEN quote(46) \o lineEnd
    ELSE s \o lineEnd

RECURSIVE qp_outline(_)
qp_outline(line) ==
    IF Len(line) = 0 THEN <<>>
    ELSE (IF needsquoting(line[1]) THEN quote(line[1]) ELSE <<line[1]>>)
         \o qp_outline(Tail(line))

\* the soft line breaks, then the line itself with its line end
RECURSIVE qp_softbreak(_, _)
qp_softbreak(thisline, lineEnd) ==
    IF Len(thisline) > MAXLINESIZE
    THEN qp_write(SubSeq(thisline, 1, MAXLINESIZE - 1), <<ESCAPE, 10>>)
         \o qp_softbreak(SubSeq(thisline, MAXLINESIZE, Len(thisline)), lineEnd)
    ELSE qp_write(thisline, lineEnd)

\* position of the first line feed of s, 0 if there is none
FirstLF(s) ==
    IF \E i \in 1..Len(s) : s[i] = 10
    THEN CHOOSE i \in 1..Len(s) : s[i] = 10 /\ \A j \in 1..(i - 1) : s[j] # 10
    ELSE 0

RECURSIVE qp_lines(_)
qp_lines(s) ==
    IF Len(s) = 0 THEN <<>>
    ELSE LET i == FirstLF(s)
         IN  IF i = 0 THEN qp_softbreak(qp_outline(s), <<>>)
             ELSE qp_softbreak(qp_outline(SubSeq(s, 1, i - 1)), <<10>>)
                  \o qp_lines(SubSeq(s, i + 1, Len(s)))

\* BytesIO(None) is an empty buffer
encodestring(s) == IF s = None THEN <<>> ELSE qp_lines(s)

\* bytes.replace(b"\n", b"\r\n")
RECURSIVE ReplaceLF(_)
ReplaceLF(b) ==
    IF Len(b) = 0 THEN <<>>
    ELSE (IF b[1] = 10 THEN CRLF ELSE <<b[1]>>) \o ReplaceLF(Tail(b))

_rn_quopri(data) == ReplaceLF(encodestring(data))

(***************************************************************************)
(* Transfer encodings and the _File record                                 *)
(***************************************************************************)
\* "base64"
NAME_BASE64 == <<98, 97, 115, 101, 54, 52>>
\* "quoted-printable"
NAME_QUOPRI == <<113, 117, 111, 116, 101, 100, 45, 112, 114, 105, 110, 116,
                 97, 98, 108, 101>>

E_NONE == [name |-> None, func |-> "identity"]
E_BASE64 == [name |-> NAME_BASE64, func |-> "_chunked_base64"]
E_QUOPRI == [name |-> NAME_QUOPRI, func |-> "_rn_quopri"]

\* encoding_func(file_struct.content)
encoding_func(transfer_encoding, content) ==
    CASE transfer_encoding.func = "identity" -> content
      [] transfer_encoding.func = "_chunked_base64" -> _chunked_base64(content)
      [] transfer_encoding.func = "_rn_quopri" -> _rn_quopri(content)

_File(content, content_type, content_location, transfer_encoding) ==
    [content |-> content, content_type |-> content_type,
     content_location |-> content_location,
     transfer_encoding |-> transfer_encoding]

\* truth value of an object that is None, a str or a bytes
Truthy(x) == x # None /\ x # <<>>

\* an empty dict
EmptyDict == [k \in {} |-> None]

\* dict.get(key, default)
dict_get(d, key, default) == IF key \in DOMAIN d THEN d[key] ELSE default

\* d[key] = value
dict_set(d, key, value) ==
    [k \in (DOMAIN d) \cup {key} |-> IF k = key THEN value ELSE d[k]]

\* del d[key], key being present
dict_del(d, key) == [k \in (DOMAIN d) \ {key} |-> d[k]]

\* the orders in which a dict's values() may be iterated
Orders(S) ==
    {o \in [1..Cardinality(S) -> S] :
        \A i, j \in 1..Cardinality(S) : o[i] = o[j] => i = j}

(***************************************************************************)
(* State                                                                   *)
(***************************************************************************)
VARIABLES
    BOUNDARY,           \* MHTMLWriter.BOUNDARY, the class attribute
    writer,             \* the MHTMLWriter: root_content, content_location,
                        \* content_type, _files
    fp,                 \* the sink last handed to write_to
    raised,             \* the exception the last call raised, or "none"
    elements,           \* start_download: the elements found in the frame
    pc,                 \* start_download: "loop", "returned"; "api" when the
                        \* writer is driven directly
    idx,                \* start_download: elements already iterated
    loaded_urls,
    pending_downloads,
    items,              \* item k is the k-th download_manager.get() result;
                        \* items[k] is the name bound to its callbacks
    outcome,            \* what item k has reported so far
    finish_count,       \* invocations of finish_file so far
    others,             \* the MHTMLWriter instances constructed besides
                        \* writer, each with the arguments it was given
    data,               \* the argument of a call of _chunked_base64
    result              \* what that call returned, None before the call

vars == <<BOUNDARY, writer, fp, raised, elements, pc, idx, loaded_urls,
          pending_downloads, items, outcome, finish_count, others, data,
          result>>

aux == <<others, data, result>>

coordinator == <<elements, pc, idx, loaded_urls, pending_downloads, items,
                 outcome, finish_count>>

(***************************************************************************)
(* class MHTMLWriter                                                       *)
(***************************************************************************)
\* the values str(uuid4()) takes here: "u1", "u2"
Uuids == {<<117, 49>>, <<117, 50>>}

\* BOUNDARY = b"---qute-mhtml-" + str(uuid4()).encode("ascii")
BoundaryOf(uuid) == [lit |-> "---qute-mhtml-", dat |-> uuid]

MHTMLWriter_init(root_content, content_location, content_type) ==
    [root_content |-> root_content,
     content_location |-> content_location,
     content_type |-> None,
     _files |-> EmptyDict]

\* mutant: the default encoding is the identity
add_file_default_encoding_identity == E_NONE

\* the default of add_file's transfer_encoding parameter
add_file_default_encoding == E_BASE64

\* mutant: a location that has a record keeps it, as dict.setdefault would
add_file_keeps_first(self, location, content, content_type, transfer_encoding) ==
    IF location \in DOMAIN self._files THEN self
    ELSE [self EXCEPT !._files =
            dict_set(self._files, location,
                     _File(content, content_type, location,
                           transfer_encoding))]

add_file(self, location, content, content_type, transfer_encoding) ==
    [self EXCEPT !._files =
        dict_set(self._files, location,
                 _File(content, content_type, location, transfer_encoding))]

\* whether _output_header raises ValueError
_output_header_raises(self) ==
    self.content_location = None \/ self.content_type = None

\* mutant: content_type is checked only after the location was written
_output_header_late_check(self, f) ==
    IF self.content_location # None
    THEN f \o <<Lit("Content-Location: "),
                Dat(Utf8Encode(self.content_location))>>
    ELSE f

\* what _output_header has written to fp when it raises
_output_header_written_before_raise(self, f) == f

_output_header(self, f) ==
    f \o <<Lit("Content-Location: "),
           Dat(Utf8Encode(self.content_location)),
           Lit("\r\nContent-Type: multipart/related;boundary=\""),
           BOUNDARY,
           Lit("\";type=\""),
           Dat(Utf8Encode(self.content_type)),
           Lit("\"\r\n\r\n")>>

\* if file_struct.content_type is not None
_output_file_has_content_type(file_struct) == file_struct.content_type # None

\* if encoding_name
_output_file_has_encoding(file_struct) ==
    Truthy(file_struct.transfer_encoding.name)

_output_file(f, file_struct) ==
    f \o <<Lit("--"), BOUNDARY, Lit("\r\nContent-Location: "),
           Dat(Utf8Encode(file_struct.content_location))>>
      \o (IF _output_file_has_content_type(file_struct)
          THEN <<Lit("\r\nContent-Type: "),
                 Dat(Utf8Encode(file_struct.content_type))>>
          ELSE <<>>)
      \o (IF _output_file_has_encoding(file_struct)
          THEN <<Lit("\r\nContent-Transfer-Encoding: "),
                 Dat(Utf8Encode(file_struct.transfer_encoding.name))>>
          ELSE <<>>)
      \o <<Lit("\r\n\r\n"),
           Dat(encoding_func(file_struct.transfer_encoding,
                             file_struct.content)),
           Lit("\r\n\r\n")>>

\* the transfer encoding of the root part
root_transfer_encoding == E_QUOPRI

_output_root_file(self, f) ==
    _output_file(f, _File(self.root_content, self.content_type,
                          self.content_location, root_transfer_encoding))

\* for file_data in self._files.values(): self._output_file(fp, file_data)
RECURSIVE output_files(_, _, _)
output_files(self, f, order) ==
    IF Len(order) = 0 THEN f
    ELSE output_files(self, _output_file(f, self._files[order[1]]),
                      Tail(order))

\* mutant: the root part is written after the other parts
write_to_root_last(self, f, order) ==
    IF _output_header_raises(self)
    THEN [fp |-> _output_header_written_before_raise(self, f),
          raised |-> "ValueError"]
    ELSE [fp |-> _output_root_file(self,
                     output_files(self, _output_header(self, f), order))
                 \o <<Lit("\r\n--"), BOUNDARY, Lit("--")>>,
          raised |-> "none"]

\* write_to(fp), self._files.values() iterating in the given order: the sink
\* afterwards and the exception raised
write_to(self, f, order) ==
    IF _output_header_raises(self)
    THEN [fp |-> _output_header_written_before_raise(self, f),
          raised |-> "ValueError"]
    ELSE [fp |-> output_files(self, _output_root_file(self,
                                        _output_header(self, f)), order)
                 \o <<Lit("\r\n--"), BOUNDARY, Lit("--")>>,
          raised |-> "none"]

\* remove_file(location): the writer afterwards, KeyError when absent
remove_file_raises(self, location) == location \notin DOMAIN self._files

remove_file(self, location) ==
    [self EXCEPT !._files = dict_del(self._files, location)]

(***************************************************************************)
(* start_download                                                          *)
(***************************************************************************)
\* bound: the number of elements the frame holds
MaxElements == 2

\* web_view.url().toString(): "http://e/"
web_url_str == <<104, 116, 116, 112, 58, 47, 47, 101, 47>>

\* web_frame.toHtml(): "<p>" followed by e-acute
WebHtml == {<<60, 112, 62, 233>>}

\* "text/html"
TEXT_HTML == <<116, 101, 120, 116, 47, 104, 116, 109, 108>>
\* "text/"
TEXT_PREFIX == <<116, 101, 120, 116, 47>>

\* values of an element's src attribute: "" and "a"
SrcValues == {<<>>, <<97>>}
\* values of an element's href attribute: "", "http://e/a" and "b"
HrefValues == {<<>>, <<104, 116, 116, 112, 58, 47, 47, 101, 47, 97>>, <<98>>}

Elements == [src : SrcValues, href : HrefValues]

\* element.attribute(name)
attribute(element, name) == IF name = "src" THEN element.src ELSE element.href

\* values of a reply's Content-Type header: "text/css", "image/png", and
\* "text/css" behind a byte that is not ASCII
ContentTypeHeaders ==
    {<<116, 101, 120, 116, 47, 99, 115, 115>>,
     <<105, 109, 97, 103, 101, 47, 112, 110, 103>>,
     <<200, 116, 101, 120, 116, 47, 99, 115, 115>>}

\* item.raw_headers: with or without a Content-Type header
RawHeaders ==
    {EmptyDict} \cup {[h \in {"Content-Type"} |-> v] : v \in ContentTypeHeaders}

\* item.fileobj.getvalue(): "hi"
FetchedContents == {<<104, 105>>}

\* urllib.parse.urljoin for a base that ends in its directory and a url that
\* is absolute (it has a scheme) or a relative path
HasScheme(url) ==
    \E i \in 1..Len(url) : url[i] = 58 /\ \A j \in 1..(i - 1) : url[j] # 47

LastSlash(s) ==
    CHOOSE i \in 0..Len(s) :
        /\ i = 0 \/ s[i] = 47
        /\ \A j \in (i + 1)..Len(s) : s[j] # 47

urljoin(base, url) ==
    IF url = <<>> THEN base
    ELSE IF HasScheme(url) THEN url
    ELSE SubSeq(base, 1, LastSlash(base)) \o url

\* mutant: href is read first, src when href is empty
element_url_of_href_first(element) ==
    IF Truthy(attribute(element, "href"))
    THEN attribute(element, "href")
    ELSE attribute(element, "src")

\* element_url = element.attribute("src"), or "href" when that is empty
element_url_of(element) ==
    IF Truthy(attribute(element, "src"))
    THEN attribute(element, "src")
    ELSE attribute(element, "href")

\* mutant: the check against loaded_urls is missing
already_loaded_never(absolute_url_str, loaded) == FALSE

\* if absolute_url_str in loaded_urls: continue
already_loaded(absolute_url_str, loaded) == absolute_url_str \in loaded

\* mutant: the two encodings are swapped
finished_encode_swapped(mime) ==
    IF StartsWith(mime, TEXT_PREFIX) THEN E_BASE64 ELSE E_QUOPRI

\* encode = E_QUOPRI if mime.startswith("text/") else E_BASE64
finished_encode(mime) ==
    IF StartsWith(mime, TEXT_PREFIX) THEN E_QUOPRI ELSE E_BASE64

\* mutant: the handler never returns early
handler_returns_never(pending) == FALSE

\* mutant: the handler goes on while one item is still pending
handler_returns_if_many(pending) == Cardinality(pending) > 1

\* mutant: the handler always returns early
handler_returns_always(pending) == TRUE

\* if pending_downloads: return
handler_returns(pending) == pending # {}

\* mutant: removing an absent item is ignored, as set.discard would
remove_raises_never(pending, item) == FALSE

\* whether pending_downloads.remove(item) raises KeyError
remove_raises(pending, item) == item \notin pending

\* finish_file(), the writer being w: open(dest, "wb") and writer.write_to
finish_file(w) ==
    /\ finish_count' = finish_count + 1
    /\ \E order \in Orders(DOMAIN w._files) :
          LET r == write_to(w, <<>>, order)
          IN  fp' = r.fp /\ raised' = r.raised

\* the callback finished(name, item)
finished(name, item, raw_headers, content) ==
    IF remove_raises(pending_downloads, item)
    THEN /\ raised' = "KeyError"
         /\ UNCHANGED <<writer, pending_downloads, fp, finish_count>>
    ELSE LET mime == AsciiIgnoreDecode(
                         dict_get(raw_headers, "Content-Type", <<>>))
             encode == finished_encode(mime)
             w == add_file(writer, name, content, mime, encode)
         IN  /\ pending_downloads' = pending_downloads \ {item}
             /\ writer' = w
             /\ IF handler_returns(pending_downloads')
                THEN raised' = "none" /\ UNCHANGED <<fp, finish_count>>
                ELSE finish_file(w)

\* mutant: the handler records nothing for the location
error_records_nothing(name, item) ==
    IF remove_raises(pending_downloads, item)
    THEN /\ raised' = "KeyError"
         /\ UNCHANGED <<writer, pending_downloads, fp, finish_count>>
    ELSE /\ pending_downloads' = pending_downloads \ {item}
         /\ writer' = writer
         /\ IF handler_returns(pending_downloads')
            THEN raised' = "none" /\ UNCHANGED <<fp, finish_count>>
            ELSE finish_file(writer)

\* the callback error(name, item, *args)
error(name, item) ==
    IF remove_raises(pending_downloads, item)
    THEN /\ raised' = "KeyError"
         /\ UNCHANGED <<writer, pending_downloads, fp, finish_count>>
    ELSE LET w == add_file(writer, name, <<>>, None,
                           add_file_default_encoding)
         IN  /\ pending_downloads' = pending_downloads \ {item}
             /\ writer' = w
             /\ IF handler_returns(pending_downloads')
                THEN raised' = "none" /\ UNCHANGED <<fp, finish_count>>
                ELSE finish_file(w)

\* start_download up to the loop: the writer and the two sets
StartDownloadInit ==
    /\ BOUNDARY \in {BoundaryOf(u) : u \in Uuids}
    /\ \E html \in WebHtml :
          writer = [MHTMLWriter_init(None, None, None) EXCEPT
                        !.root_content = Utf8Encode(html),
                        !.content_location = web_url_str,
                        !.content_type = TEXT_HTML]
    /\ elements \in UNION {[1..n -> Elements] : n \in 0..MaxElements}
    /\ pc = "loop"
    /\ idx = 0
    /\ loaded_urls = {}
    /\ pending_downloads = {}
    /\ items = <<>>
    /\ outcome = <<>>
    /\ finish_count = 0
    /\ fp = <<>>
    /\ raised = "none"
    /\ others = <<>>
    /\ data = <<>>
    /\ result = None

\* one iteration of "for element in elements"
LoopIteration ==
    /\ pc = "loop"
    /\ idx < Len(elements)
    /\ idx' = idx + 1
    /\ LET element == elements[idx + 1]
           element_url == element_url_of(element)
           absolute_url_str == urljoin(web_url_str, element_url)
       IN  IF ~Truthy(element_url)
           THEN UNCHANGED <<loaded_urls, pending_downloads, items, outcome>>
           ELSE IF already_loaded(absolute_url_str, loaded_urls)
           THEN UNCHANGED <<loaded_urls, pending_downloads, items, outcome>>
           ELSE /\ loaded_urls' = loaded_urls \cup {absolute_url_str}
                /\ items' = Append(items, absolute_url_str)
                /\ outcome' = Append(outcome, "pending")
                /\ pending_downloads' =
                       pending_downloads \cup {Len(items) + 1}
    /\ UNCHANGED <<aux, BOUNDARY, writer, fp, raised, elements, pc,
                   finish_count>>

\* the loop ends and start_download returns
LoopExit ==
    /\ pc = "loop"
    /\ idx = Len(elements)
    /\ pc' = "returned"
    /\ UNCHANGED <<aux, BOUNDARY, writer, fp, raised, elements, idx,
                   loaded_urls, pending_downloads, items, outcome,
                   finish_count>>

\* A signal of an item runs its callback as one step.  The callbacks are
\* connected as soon as the item is dispatched, so a signal may be delivered
\* between two iterations of the loop as well as after start_download has
\* returned; an item emits at most one of its three signals.

\* item's finished signal is emitted
ItemFinished ==
    \E item \in 1..Len(items) :
    \E raw_headers \in RawHeaders, content \in FetchedContents :
        /\ outcome[item] = "pending"
        /\ finished(items[item], item, raw_headers, content)
        /\ outcome' = [outcome EXCEPT ![item] = "finished"]
        /\ UNCHANGED <<aux, BOUNDARY, elements, pc, idx, loaded_urls, items>>

\* item's error signal is emitted
ItemError ==
    \E item \in 1..Len(items) :
        /\ outcome[item] = "pending"
        /\ error(items[item], item)
        /\ outcome' = [outcome EXCEPT ![item] = "error"]
        /\ UNCHANGED <<aux, BOUNDARY, elements, pc, idx, loaded_urls, items>>

\* item's cancelled signal is emitted
ItemCancelled ==
    \E item \in 1..Len(items) :
        /\ outcome[item] = "pending"
        /\ error(items[item], item)
        /\ outcome' = [outcome EXCEPT ![item] = "cancelled"]
        /\ UNCHANGED <<aux, BOUNDARY, elements, pc, idx, loaded_urls, items>>

Init == StartDownloadInit

Next ==
    \/ LoopIteration
    \/ LoopExit
    \/ ItemFinished
    \/ ItemError
    \/ ItemCancelled

Spec == Init /\ [][Next]_vars

\* The event loop delivers the signals of the items only once start_download
\* has returned to it: no callback runs between two iterations of the loop.
DeferredFinished == pc = "returned" /\ ItemFinished

DeferredError == pc = "returned" /\ ItemError

DeferredCancelled == pc = "returned" /\ ItemCancelled

DeferredNext ==
    \/ LoopIteration
    \/ LoopExit
    \/ DeferredFinished
    \/ DeferredError
    \/ DeferredCancelled

SpecDeferred == Init /\ [][DeferredNext]_vars

\* An item that has reported emits a signal once more: its callback runs a
\* second time with the same name and item.
RepeatedFinished ==
    \E item \in 1..Len(items) :
    \E raw_headers \in RawHeaders, content \in FetchedContents :
        /\ outcome[item] # "pending"
        /\ finished(items[item], item, raw_headers, content)
        /\ UNCHANGED <<aux, BOUNDARY, elements, pc, idx, loaded_urls, items,
                       outcome>>

\* the error or the cancelled signal, both connected to error
RepeatedError ==
    \E item \in 1..Len(items) :
        /\ outcome[item] # "pending"
        /\ error(items[item], item)
        /\ UNCHANGED <<aux, BOUNDARY, elements, pc, idx, loaded_urls, items,
                       outcome>>

RepeatNext ==
    \/ LoopIteration
    \/ LoopExit
    \/ ItemFinished
    \/ ItemError
    \/ ItemCancelled
    \/ RepeatedFinished
    \/ RepeatedError

SpecRepeat == Init /\ [][RepeatNext]_vars

(***************************************************************************)
(* MHTMLWriter driven directly through its methods                         *)
(***************************************************************************)
\* arguments of the calls: "hi"; "http://e/a", "http://e/b"; "text/css"
ApiContents == {<<104, 105>>}
ApiRootLocations == {web_url_str}
ApiLocations == {<<104, 116, 116, 112, 58, 47, 47, 101, 47, 97>>,
                 <<104, 116, 116, 112, 58, 47, 47, 101, 47, 98>>}
ApiContentTypes == {<<116, 101, 120, 116, 47, 99, 115, 115>>}
ApiEncodings == {E_NONE, E_BASE64}

\* writer = MHTMLWriter(root_content, content_location, content_type)
WriterInit ==
    /\ BOUNDARY \in {BoundaryOf(u) : u \in Uuids}
    /\ \E root_content \in ApiContents \cup {None},
          content_location \in ApiRootLocations \cup {None},
          content_type \in ApiContentTypes \cup {None} :
          writer = MHTMLWriter_init(root_content, content_location,
                                    content_type)
    /\ elements = <<>>
    /\ pc = "api"
    /\ idx = 0
    /\ loaded_urls = {}
    /\ pending_downloads = {}
    /\ items = <<>>
    /\ outcome = <<>>
    /\ finish_count = 0
    /\ fp = <<>>
    /\ raised = "none"
    /\ others = <<>>
    /\ data = <<>>
    /\ result = None

\* writer.root_content = value
SetRootContent ==
    /\ pc = "api"
    /\ \E value \in ApiContents \cup {None} :
          writer' = [writer EXCEPT !.root_content = value]
    /\ raised' = "none"
    /\ UNCHANGED <<aux, BOUNDARY, fp, coordinator>>

\* writer.content_location = value
SetContentLocation ==
    /\ pc = "api"
    /\ \E value \in ApiRootLocations \cup {None} :
          writer' = [writer EXCEPT !.content_location = value]
    /\ raised' = "none"
    /\ UNCHANGED <<aux, BOUNDARY, fp, coordinator>>

\* writer.content_type = value
SetContentType ==
    /\ pc = "api"
    /\ \E value \in ApiContentTypes \cup {None} :
          writer' = [writer EXCEPT !.content_type = value]
    /\ raised' = "none"
    /\ UNCHANGED <<aux, BOUNDARY, fp, coordinator>>

\* writer.add_file(location, content, content_type, transfer_encoding)
AddFileCall(location, content, content_type, transfer_encoding) ==
    /\ pc = "api"
    /\ writer' = add_file(writer, location, content, content_type,
                          transfer_encoding)
    /\ raised' = "none"
    /\ UNCHANGED <<aux, BOUNDARY, fp, coordinator>>

AddFile ==
    \E location \in ApiLocations, content \in ApiContents,
       content_type \in ApiContentTypes \cup {None},
       transfer_encoding \in ApiEncodings :
       AddFileCall(location, content, content_type, transfer_encoding)

\* writer.remove_file(location)
RemoveFileCall(location) ==
    /\ pc = "api"
    /\ IF remove_file_raises(writer, location)
       THEN raised' = "KeyError" /\ UNCHANGED writer
       ELSE raised' = "none" /\ writer' = remove_file(writer, location)
    /\ UNCHANGED <<aux, BOUNDARY, fp, coordinator>>

RemoveFile == \E location \in ApiLocations : RemoveFileCall(location)

\* writer.write_to(fp), fp being a sink nothing was written to
WriteTo ==
    /\ pc = "api"
    /\ \E order \in Orders(DOMAIN writer._files) :
          LET r == write_to(writer, <<>>, order)
          IN  fp' = r.fp /\ raised' = r.raised
    /\ UNCHANGED <<aux, BOUNDARY, writer, coordinator>>

WriterNext ==
    \/ SetRootContent
    \/ SetContentLocation
    \/ SetContentType
    \/ AddFile
    \/ RemoveFile
    \/ WriteTo

SpecWriter == WriterInit /\ [][WriterNext]_vars

(***************************************************************************)
(* Several MHTMLWriter instances in one process                            *)
(***************************************************************************)
\* instances constructed besides writer
MaxWriters == 2

\* self.BOUNDARY: no method assigns an instance attribute of that name, so
\* the lookup ends at the class attribute whatever the instance
instance_BOUNDARY(self) == BOUNDARY

InstancesInit ==
    /\ BOUNDARY \in {BoundaryOf(u) : u \in Uuids}
    /\ writer = MHTMLWriter_init(None, None, None)
    /\ elements = <<>>
    /\ pc = "instances"
    /\ idx = 0
    /\ loaded_urls = {}
    /\ pending_downloads = {}
    /\ items = <<>>
    /\ outcome = <<>>
    /\ finish_count = 0
    /\ fp = <<>>
    /\ raised = "none"
    /\ others = <<>>
    /\ data = <<>>
    /\ result = None

\* MHTMLWriter(root_content, content_location, content_type)
Construct ==
    /\ pc = "instances"
    /\ Len(others) < MaxWriters
    /\ \E root_content \in ApiContents \cup {None},
          content_location \in ApiRootLocations \cup {None},
          content_type \in ApiContentTypes \cup {None} :
          others' = Append(others,
              [args |-> <<root_content, content_location, content_type>>,
               obj |-> MHTMLWriter_init(root_content, content_location,
                                        content_type)])
    /\ raised' = "none"
    /\ UNCHANGED <<BOUNDARY, writer, fp, coordinator, data, result>>

\* others[k].obj.write_to(fp), fp being a sink nothing was written to
WriteOther ==
    /\ pc = "instances"
    /\ \E k \in 1..Len(others) :
       \E order \in Orders(DOMAIN others[k].obj._files) :
          LET r == write_to(others[k].obj, <<>>, order)
          IN  fp' = r.fp /\ raised' = r.raised
    /\ UNCHANGED <<aux, BOUNDARY, writer, coordinator>>

InstancesNext ==
    \/ Construct
    \/ WriteOther

SpecInstances == InstancesInit /\ [][InstancesNext]_vars

(***************************************************************************)
(* _chunked_base64 called on its own                                       *)
(***************************************************************************)
\* the longest argument
MaxDataLen == 120

\* the arguments: byte i is (start + i * step) % 256
ByteStarts == {0, 255}
ByteSteps == {0, 1, 85}

DataOf(n, start, step) == [i \in 1..n |-> (start + i * step) % 256]

ChunkedInit ==
    /\ BOUNDARY \in {BoundaryOf(u) : u \in Uuids}
    /\ writer = MHTMLWriter_init(None, None, None)
    /\ elements = <<>>
    /\ pc = "chunked"
    /\ idx = 0
    /\ loaded_urls = {}
    /\ pending_downloads = {}
    /\ items = <<>>
    /\ outcome = <<>>
    /\ finish_count = 0
    /\ fp = <<>>
    /\ raised = "none"
    /\ others = <<>>
    /\ \E n \in 0..MaxDataLen, start \in ByteStarts, step \in ByteSteps :
          data = DataOf(n, start, step)
    /\ result = None

\* result = _chunked_base64(data)
ChunkedBase64Call ==
    /\ pc = "chunked"
    /\ result = None
    /\ result' = _chunked_base64(data)
    /\ UNCHANGED <<BOUNDARY, writer, fp, raised, coordinator, others, data>>

ChunkedNext == ChunkedBase64Call

SpecChunked == ChunkedInit /\ [][ChunkedNext]_vars

(***************************************************************************)
(* Reading a serialized archive                                            *)
(***************************************************************************)
\* the positions in f at which a part opens
PartStarts(f) ==
    {i \in 1..(Len(f) - 3) :
        /\ f[i] = Lit("--")
        /\ f[i + 1] = BOUNDARY
        /\ f[i + 2] = Lit("\r\nContent-Location: ")}

NumParts(f) == Cardinality(PartStarts(f))

PartLocation(f, i) == f[i + 3].dat

\* the blank line that ends the header lines of the part opening at i
PartHeaderEnd(f, i) ==
    CHOOSE j \in (i + 4)..Len(f) :
        /\ f[j] = Lit("\r\n\r\n")
        /\ \A k \in (i + 4)..(j - 1) : f[k] # Lit("\r\n\r\n")

PartHasLine(f, i, line) ==
    \E k \in (i + 4)..(PartHeaderEnd(f, i) - 1) : f[k] = Lit(line)

PartLineValue(f, i, line) ==
    LET k == CHOOSE k \in (i + 4)..(PartHeaderEnd(f, i) - 1) : f[k] = Lit(line)
    IN  f[k + 1].dat

PartBody(f, i) == f[PartHeaderEnd(f, i) + 1].dat

\* the parts of f written for the given location
PartsFor(f, location) ==
    {i \in PartStarts(f) : PartLocation(f, i) = Utf8Encode(location)}

\* the part that opens first: the root part
RootPart(f) == CHOOSE i \in PartStarts(f) : \A j \in PartStarts(f) : i <= j

CT_LINE == "\r\nContent-Type: "
CTE_LINE == "\r\nContent-Transfer-Encoding: "

\* the absolute locations the elements els lead to
CandidateLocations(els) ==
    {urljoin(web_url_str, element_url_of(els[k])) :
        k \in {j \in 1..Len(els) : Truthy(element_url_of(els[j]))}}

AllReported == \A i \in 1..Len(items) : outcome[i] # "pending"

\* fp is the serialization of the writer as it is now: the handler that
\* emptied pending_downloads wrote it and nothing was dispatched since
ArchiveCurrent == finish_count > 0 /\ pending_downloads = {}

(***************************************************************************)
(* Claims                                                                  *)
(***************************************************************************)

\* C1: once start_download has returned and every dispatched fetch has
\* reported, finish_file has been invoked exactly once; it is never invoked
\* twice.
C1_FinishExactlyOnce ==
    /\ finish_count <= 1
    /\ (pc = "returned" /\ AllReported) => finish_count = 1

\* C2: with no candidate location (nothing dispatched), finish_file has been
\* invoked when start_download returns, and the archive written holds the
\* root part only.
C2_EmptySetFinalizesAtReturn ==
    (pc = "returned" /\ Len(items) = 0)
        => (finish_count = 1 /\ NumParts(fp) = 1)

\* C3: while elements remain to be iterated by the loop of start_download,
\* finish_file has not been invoked.
C3_NoFinishWhileDispatching ==
    (pc = "loop" /\ idx < Len(elements)) => finish_count = 0

\* C4: a step that invokes finish_file leaves pending_downloads empty and
\* every dispatched fetch reported; a step during which some dispatched
\* fetch stays unreported does not invoke finish_file.
C4_FinishOnlyWhenAllReported ==
    [][/\ (finish_count' # finish_count) =>
              /\ pending_downloads' = {}
              /\ \A i \in 1..Len(items') : outcome'[i] # "pending"
       /\ (\E i \in 1..Len(items) :
               outcome[i] = "pending" /\ outcome'[i] = "pending")
              => finish_count' = finish_count]_vars

\* C4 witness: two fetches were dispatched, both reported, and the handler
\* of the second one invoked finish_file.
C4_Witness ==
    /\ pc = "returned"
    /\ Len(items) = 2
    /\ AllReported
    /\ finish_count = 1
    /\ pending_downloads = {}

\* C5: an archive serialized by finish_file holds N + 1 parts, N being the
\* number of unique candidate locations of the page.
C5_PartsAreAllLocationsPlusRoot ==
    finish_count > 0
        => NumParts(fp) = Cardinality(CandidateLocations(elements)) + 1

\* C6: no location is dispatched twice; the fetches dispatched are the
\* distinct resolved non-empty locations of the elements iterated so far;
\* and a serialized archive holds at most one part per location, exactly one
\* for each dispatched location once all of them have reported.
C6_OneFetchAndOnePartPerLocation ==
    /\ \A i, j \in 1..Len(items) : items[i] = items[j] => i = j
    /\ Len(items) = Cardinality(CandidateLocations(SubSeq(elements, 1, idx)))
    /\ {items[i] : i \in 1..Len(items)}
           = CandidateLocations(SubSeq(elements, 1, idx))
    /\ \A i \in 1..Len(items) : Cardinality(PartsFor(fp, items[i])) <= 1
    /\ ArchiveCurrent =>
           \A i \in 1..Len(items) : Cardinality(PartsFor(fp, items[i])) = 1

\* C6 witness: two elements, one with a relative src and one with an
\* absolute href, resolved to the same location; one fetch was dispatched
\* and the archive was written with its part.
C6_Witness ==
    /\ pc = "returned"
    /\ Len(elements) = 2
    /\ elements[1].src # <<>>
    /\ elements[2].src = <<>>
    /\ elements[2].href # <<>>
    /\ elements[1].src # elements[2].href
    /\ Len(items) = 1
    /\ ArchiveCurrent
    /\ NumParts(fp) = 2

\* C7 as stated: the part of a fetch that reported error or cancelled has
\* no Content-Type line, no Content-Transfer-Encoding line and an empty
\* body.
C7_PlaceholderHasNoEncodingLine ==
    ArchiveCurrent =>
        \A i \in 1..Len(items) :
            outcome[i] \in {"error", "cancelled"} =>
                \E p \in PartsFor(fp, items[i]) :
                    /\ ~PartHasLine(fp, p, CT_LINE)
                    /\ ~PartHasLine(fp, p, CTE_LINE)
                    /\ PartBody(fp, p) = <<>>

\* C7 amended: the part of a fetch that reported error or cancelled has no
\* Content-Type line, the line "Content-Transfer-Encoding: base64" and an
\* empty body.
C7_PlaceholderIsEmptyBase64 ==
    ArchiveCurrent =>
        \A i \in 1..Len(items) :
            outcome[i] \in {"error", "cancelled"} =>
                \E p \in PartsFor(fp, items[i]) :
                    /\ ~PartHasLine(fp, p, CT_LINE)
                    /\ PartHasLine(fp, p, CTE_LINE)
                    /\ PartLineValue(fp, p, CTE_LINE) = NAME_BASE64
                    /\ PartBody(fp, p) = <<>>

\* C7 witness: one fetch reported error, another was cancelled, and the
\* archive was written.
C7_Witness ==
    /\ ArchiveCurrent
    /\ \E i, j \in 1..Len(items) :
          outcome[i] = "error" /\ outcome[j] = "cancelled"

\* C8: write_to on a writer whose content_location or content_type is None
\* raises ValueError, has written nothing to the sink, and leaves the writer
\* as it was.
C8_UnsetWriterRaisesBeforeWriting ==
    [][(WriteTo /\ (writer.content_location = None
                      \/ writer.content_type = None))
          => /\ raised' = "ValueError"
             /\ fp' = <<>>
             /\ writer' = writer]_vars

\* C8 witness: write_to raised on a writer that has a location and a file
\* but no content type.
C8_Witness ==
    /\ pc = "api"
    /\ raised = "ValueError"
    /\ fp = <<>>
    /\ writer.content_location # None
    /\ writer.content_type = None
    /\ DOMAIN writer._files # {}

\* C9: the root part of a written archive is quoted-printable; the record
\* of a fetch that finished is quoted-printable when its content type starts
\* with "text/" and base64 otherwise, the empty content type of a reply
\* without the header included.
C9_EncoderSelection ==
    /\ finish_count > 0 =>
           /\ PartHasLine(fp, RootPart(fp), CTE_LINE)
           /\ PartLineValue(fp, RootPart(fp), CTE_LINE) = NAME_QUOPRI
           /\ PartBody(fp, RootPart(fp)) = _rn_quopri(writer.root_content)
    /\ \A i \in 1..Len(items) :
           outcome[i] = "finished" =>
               LET r == writer._files[items[i]]
               IN  /\ r.transfer_encoding \in {E_QUOPRI, E_BASE64}
                   /\ r.transfer_encoding = E_QUOPRI
                          <=> StartsWith(r.content_type, TEXT_PREFIX)
                   /\ r.content_type = <<>> => r.transfer_encoding = E_BASE64

\* C9 witness: one fetch finished with a text/ type, another finished
\* without a Content-Type header, and the archive was written.
C9_Witness ==
    /\ ArchiveCurrent
    /\ \E i, j \in 1..Len(items) :
          /\ outcome[i] = "finished"
          /\ outcome[j] = "finished"
          /\ StartsWith(writer._files[items[i]].content_type, TEXT_PREFIX)
          /\ writer._files[items[j]].content_type = <<>>

\* C10: in a written archive a part has a Content-Type line exactly when its
\* media type is known and a Content-Transfer-Encoding line exactly when
\* its encoding is not the identity; the part of a fetch that finished
\* without a Content-Type header has no Content-Type line.
C10_ContentTypeLineIffKnown ==
    ArchiveCurrent =>
        \A i \in 1..Len(items) :
            LET r == writer._files[items[i]]
            IN  \A p \in PartsFor(fp, items[i]) :
                    /\ PartHasLine(fp, p, CT_LINE) <=> Truthy(r.content_type)
                    /\ PartHasLine(fp, p, CTE_LINE)
                           <=> r.transfer_encoding # E_NONE

\* the last chunk of the part opening at i
PartEnd(f, i) == PartHeaderEnd(f, i) + 2

\* f is a whole archive of the writer self: the header block, the root part,
\* one part per entry of self._files back to back, the closing delimiter,
\* and no other chunk
WholeArchive(f, self) ==
    /\ Len(f) >= 10
    /\ SubSeq(f, 1, 7) =
           <<Lit("Content-Location: "),
             Dat(Utf8Encode(self.content_location)),
             Lit("\r\nContent-Type: multipart/related;boundary=\""),
             BOUNDARY,
             Lit("\";type=\""),
             Dat(Utf8Encode(self.content_type)),
             Lit("\"\r\n\r\n")>>
    /\ 8 \in PartStarts(f)
    /\ PartLocation(f, 8) = Utf8Encode(self.content_location)
    /\ \A i \in PartStarts(f) :
          \/ PartEnd(f, i) + 1 \in PartStarts(f)
          \/ PartEnd(f, i) + 1 = Len(f) - 2
    /\ SubSeq(f, Len(f) - 2, Len(f)) =
           <<Lit("\r\n--"), BOUNDARY, Lit("--")>>
    /\ NumParts(f) = 1 + Cardinality(DOMAIN self._files)
    /\ \A location \in DOMAIN self._files :
          Cardinality(PartsFor(f, location) \ {8}) = 1

\* C11: a write_to that raises nothing leaves in the sink, in this order and
\* with nothing else, the header block (Content-Location, the
\* multipart/related Content-Type naming the boundary and the root type, a
\* blank line), the root part as the first part, one part per entry of the
\* mapping, each opened by the boundary delimiter line, and the closing
\* delimiter "\r\n--<boundary>--" as the last bytes.
C11_ArchiveLayout ==
    [][(WriteTo /\ raised' = "none") => WholeArchive(fp', writer)]_vars

C11_Witness ==
    /\ pc = "api"
    /\ raised = "none"
    /\ Cardinality(DOMAIN writer._files) = 2
    /\ WholeArchive(fp, writer)

\* C12: the boundary token is generated once per MHTMLWriter instance at
\* construction: any two distinct instances alive in one process have
\* different boundary tokens, and no boundary is used by two builds.
C12_BoundaryPerInstance ==
    \A j, k \in 1..Len(others) :
        j # k => instance_BOUNDARY(others[j].obj)
                     # instance_BOUNDARY(others[k].obj)

\* C20: an MHTMLWriter constructed with root_content, content_location and
\* content_type holds exactly those three values in its fields right after
\* construction, so write_to on an instance constructed with a location and
\* a type, and not modified since, does not raise ValueError.
C20_ConstructorKeepsArguments ==
    \A k \in 1..Len(others) :
        LET self == others[k].obj
            args == others[k].args
        IN  /\ self.root_content = args[1]
            /\ self.content_location = args[2]
            /\ self.content_type = args[3]
            /\ (args[2] # None /\ args[3] # None)
                   => ~_output_header_raises(self)

\* the value of a character of the base64 alphabet, -1 for any other byte
B64Value(c) ==
    IF c >= 65 /\ c <= 90 THEN c - 65
    ELSE IF c >= 97 /\ c <= 122 THEN c - 97 + 26
    ELSE IF c >= 48 /\ c <= 57 THEN c - 48 + 52
    ELSE IF c = 43 THEN 62
    ELSE IF c = 47 THEN 63
    ELSE -1

\* the bytes a base64 text of whole quadruples stands for
RECURSIVE b64decode(_)
b64decode(text) ==
    IF Len(text) = 0 THEN <<>>
    ELSE LET pad == IF text[3] = 61 THEN 2 ELSE IF text[4] = 61 THEN 1 ELSE 0
             v(k) == IF text[k] = 61 THEN 0 ELSE B64Value(text[k])
             n == v(1) * 262144 + v(2) * 4096 + v(3) * 64 + v(4)
             bytes == <<n \div 65536, (n \div 256) % 256, n % 256>>
         IN  SubSeq(bytes, 1, 3 - pad) \o b64decode(SubSeq(text, 5, Len(text)))

\* the lines of text, CRLF being the separator; no line for the empty text
RECURSIVE SplitLines(_)
SplitLines(text) ==
    IF \E i \in 1..(Len(text) - 1) : text[i] = 13 /\ text[i + 1] = 10
    THEN LET i == CHOOSE i \in 1..(Len(text) - 1) :
                     /\ text[i] = 13 /\ text[i + 1] = 10
                     /\ \A j \in 1..(i - 1) : ~(text[j] = 13 /\ text[j + 1] = 10)
         IN  <<SubSeq(text, 1, i - 1)>>
                 \o SplitLines(SubSeq(text, i + 2, Len(text)))
    ELSE <<text>>

Lines(text) == IF text = <<>> THEN <<>> ELSE SplitLines(text)

\* C13: for every input, _chunked_base64 returns the standard base64 text of
\* the input as lines joined by CRLF: every line has at most 76 characters,
\* every line but the last exactly 76, no line is empty, nothing follows the
\* last line, the lines put together are the unwrapped base64 text (which
\* decodes to the input), and the empty input gives the empty output.
C13_ChunkedBase64 ==
    (pc = "chunked" /\ result # None) =>
        LET lines == Lines(result)
            text == Join(lines, <<>>)
        IN  /\ \A k \in 1..Len(lines) :
                  /\ Len(lines[k]) >= 1
                  /\ Len(lines[k]) <= 76
                  /\ k < Len(lines) => Len(lines[k]) = 76
                  /\ \A j \in 1..Len(lines[k]) :
                        B64Value(lines[k][j]) >= 0 \/ lines[k][j] = 61
            /\ Len(text) = 4 * ((Len(data) + 2) \div 3)
            /\ text = b64encode(data)
            /\ b64decode(text) = data
            /\ (data = <<>>) => (result = <<>>)

C13_Witness ==
    /\ pc = "chunked"
    /\ result # None
    /\ Len(Lines(result)) = 3
    /\ Len(Lines(result)[3]) < 76

\* C14: the mapping holds at most one record per location and that record is
\* the one of the most recent add_file for the location (last write wins);
\* add_file and remove_file for one location leave the record of every other
\* location as it was, and no other call changes the mapping.
C14_LastWriteWins ==
    [][/\ \A location \in ApiLocations, content \in ApiContents,
             content_type \in ApiContentTypes \cup {None},
             transfer_encoding \in ApiEncodings :
             AddFileCall(location, content, content_type, transfer_encoding)
             => /\ DOMAIN writer'._files
                       = (DOMAIN writer._files) \cup {location}
                /\ writer'._files[location].content = content
                /\ writer'._files[location].content_type = content_type
                /\ writer'._files[location].content_location = location
                /\ writer'._files[location].transfer_encoding
                       = transfer_encoding
                /\ \A other \in (DOMAIN writer._files) \ {location} :
                       writer'._files[other] = writer._files[other]
       /\ \A location \in ApiLocations :
             (RemoveFileCall(location) /\ raised' = "none")
             => /\ DOMAIN writer'._files
                       = (DOMAIN writer._files) \ {location}
                /\ \A other \in DOMAIN writer'._files :
                       writer'._files[other] = writer._files[other]
       /\ writer'._files # writer._files => (AddFile \/ RemoveFile)
       /\ (WriteTo /\ raised' = "none")
             => \A location \in DOMAIN writer._files :
                   /\ Cardinality(PartsFor(fp', location)) = 1
                   /\ \A i \in PartsFor(fp', location) :
                         PartBody(fp', i) =
                             encoding_func(
                                 writer._files[location].transfer_encoding,
                                 writer._files[location].content)
      ]_vars

\* the sink holds an archive whose part for a location carries a media type
\* line while the record of that location now has no media type: the record
\* was replaced after the archive was written
C14_Witness ==
    /\ pc = "api"
    /\ \E location \in DOMAIN writer._files :
          /\ writer._files[location].content_type = None
          /\ Cardinality(DOMAIN writer._files) = 2
          /\ \E i \in PartsFor(fp, location) : PartHasLine(fp, i, CT_LINE)

\* C15: pending_downloads is exactly the set of the dispatched items that
\* have not reported: a dispatch adds exactly the new item, a reported event
\* removes exactly the reporting item, and the test for emptiness is made in
\* the handler step that removed it: that step invokes finish_file exactly
\* when the removal left the set empty.
C15_PendingIsUnreported ==
    [][/\ pending_downloads'
             = {i \in 1..Len(items') : outcome'[i] = "pending"}
       /\ Len(items') # Len(items)
             => /\ Len(items') = Len(items) + 1
                /\ pending_downloads'
                       = pending_downloads \cup {Len(items')}
                /\ Len(items') \notin pending_downloads
                /\ finish_count' = finish_count
       /\ \A item \in 1..Len(items) :
             (outcome[item] = "pending" /\ outcome'[item] # "pending")
             => /\ item \in pending_downloads
                /\ pending_downloads' = pending_downloads \ {item}
                /\ finish_count' = finish_count + 1
                       <=> pending_downloads' = {}
                /\ finish_count' \in {finish_count, finish_count + 1}
       /\ (Len(items') = Len(items) /\ outcome' = outcome)
             => (pending_downloads' = pending_downloads
                    /\ finish_count' = finish_count)
      ]_vars

\* of two dispatched items one has reported and one is pending
C15_Witness ==
    /\ pc = "loop"
    /\ Cardinality(pending_downloads) = 1
    /\ Len(items) = 2
    /\ finish_count = 0

\* C16: an error event and a cancelled event of the same item lead to the
\* same state: the location gets a record with empty content and no media
\* type, the item leaves pending_downloads, every other record and every
\* other item is left as it was, and the build finalizes in that step
\* exactly when no item is left pending.
C16_ErrorAndCancelledAlike ==
    [][\A item \in 1..Len(items) :
          (outcome[item] = "pending"
              /\ outcome'[item] \in {"error", "cancelled"})
          => /\ DOMAIN writer'._files
                    = (DOMAIN writer._files) \cup {items[item]}
             /\ writer'._files[items[item]].content = <<>>
             /\ writer'._files[items[item]].content_type = None
             /\ writer'._files[items[item]].content_location = items[item]
             /\ \A other \in (DOMAIN writer._files) \ {items[item]} :
                    writer'._files[other] = writer._files[other]
             /\ writer'.root_content = writer.root_content
             /\ writer'.content_location = writer.content_location
             /\ writer'.content_type = writer.content_type
             /\ pending_downloads' = pending_downloads \ {item}
             /\ \A other \in (1..Len(items)) \ {item} :
                    outcome'[other] = outcome[other]
             /\ UNCHANGED <<BOUNDARY, elements, pc, idx, loaded_urls, items>>
             /\ IF pending_downloads' = {}
                THEN /\ finish_count' = finish_count + 1
                     /\ raised' = "none"
                     /\ WholeArchive(fp', writer')
                     /\ \A i \in PartsFor(fp', items[item]) :
                            /\ PartBody(fp', i) = <<>>
                            /\ ~PartHasLine(fp', i, CT_LINE)
                ELSE UNCHANGED <<fp, finish_count>>
      ]_vars

\* one item reported error, another cancelled, and the archive was written
C16_Witness ==
    /\ ArchiveCurrent
    /\ \E i, j \in 1..Len(items) :
          outcome[i] = "error" /\ outcome[j] = "cancelled"
    /\ \A i \in 1..Len(items) :
          /\ Cardinality(PartsFor(fp, items[i])) = 1
          /\ \A k \in PartsFor(fp, items[i]) : PartBody(fp, k) = <<>>

\* the locations the elements els lead to, one entry per element that has a
\* src or an href, in the order of the elements
RECURSIVE ResolvedLocations(_)
ResolvedLocations(els) ==
    IF Len(els) = 0 THEN <<>>
    ELSE LET e == els[1]
             rest == ResolvedLocations(Tail(els))
         IN  IF e.src # <<>> THEN <<urljoin(web_url_str, e.src)>> \o rest
             ELSE IF e.href # <<>>
                  THEN <<urljoin(web_url_str, e.href)>> \o rest
                  ELSE rest

\* seq without the entries that repeat an earlier one
FirstOccurrences(seq) ==
    LET keep == {k \in 1..Len(seq) : \A j \in 1..(k - 1) : seq[j] # seq[k]}
        RECURSIVE take(_)
        take(k) == IF k > Len(seq) THEN <<>>
                   ELSE IF k \in keep THEN <<seq[k]>> \o take(k + 1)
                   ELSE take(k + 1)
    IN  take(1)

\* C17: the loop takes the elements in input order, reads src when it is
\* not empty and href otherwise, skips an element whose src and href are
\* both empty, and dispatches the fetches in the order in which each distinct
\* resolved location first occurs.
C17_DispatchOrder ==
    /\ pc \in {"loop", "returned"}
          => items = FirstOccurrences(
                        ResolvedLocations(SubSeq(elements, 1, idx)))
    /\ pc = "returned" => idx = Len(elements)

\* the second element has both attributes, its src gave the second item and
\* the location of its href was dispatched first
C17_Witness ==
    /\ pc = "returned"
    /\ Len(elements) = 2
    /\ Len(items) = 2
    /\ elements[2].src # <<>>
    /\ elements[2].href # <<>>
    /\ items[2] = urljoin(web_url_str, elements[2].src)
    /\ items[1] = urljoin(web_url_str, elements[2].href)

\* C18: when at least one fetch is dispatched and every event is delivered
\* after the loop has ended, each item reporting once, finish_file is invoked
\* exactly once, in the handler of the item that reports last, and the keys
\* of the mapping are then exactly the dispatched locations.
C18_DeferredEventsFinishOnce ==
    /\ finish_count <= 1
    /\ finish_count = 1
          <=> (pc = "returned" /\ Len(items) >= 1 /\ AllReported)
    /\ finish_count = 1
          => /\ DOMAIN writer._files = {items[i] : i \in 1..Len(items)}
             /\ raised = "none"
             /\ WholeArchive(fp, writer)

C18_Witness ==
    /\ pc = "returned"
    /\ Len(items) = 2
    /\ AllReported
    /\ finish_count = 1
    /\ NumParts(fp) = 3

\* C19: when an item that has reported delivers a second event, the second
\* run of the handler fails with KeyError before it changes the mapping and
\* does not invoke finish_file: the first record is kept and the archive is
\* not written again.
C19_SecondEventRejected ==
    [][(RepeatedFinished \/ RepeatedError)
          => /\ raised' = "KeyError"
             /\ writer' = writer
             /\ pending_downloads' = pending_downloads
             /\ finish_count' = finish_count
             /\ fp' = fp
      ]_vars

\* a second event was rejected after the archive had been written
C19_Witness ==
    /\ raised = "KeyError"
    /\ ArchiveCurrent
    /\ finish_count = 1
    /\ Len(items) = 2
====
